---- MODULE Spec2Model ----
(***************************************************************************)
(* memU storage/synchronisation core: the in-memory repository, the        *)
(* PostgresClient driver (lazy pool, four upserts, bulk reload) and the    *)
(* PersistentStoreProxy that composes them (src/memu/memory/pg_store.py).  *)
(***************************************************************************)
EXTENDS Integers, Sequences, FiniteSets, TLC

(* ---------------------------------------------------------------- bounds *)
\* number of proxy/driver calls explored in one run of Spec
MaxCalls == 4
\* number of calls explored in one run of SpecRT (create, assign, persist)
MaxCallsRT == 3
\* longest embedding vector drawn in SpecRT
MaxDim == 2
\* number of calls explored in one run of SpecBad
MaxCallsBad == 5

\* calls made in a run with two concurrent tasks
MaxCallsConc == 4

(* -------------------------------------------------------- program values *)
\* PostgresClient.__init__: embed_dim default
EmbedDim == 1536

\* Python None in a scalar (string) field or column
None == "None"
\* Python None in an embedding field or column
NoEmb == [t |-> "none", v |-> <<>>]
\* a Python list of floats
ListOf(s) == [t |-> "list", v |-> s]
\* a Python str / a text column, as its sequence of lexical tokens
TextOf(s) == [t |-> "str", v |-> s]

\* the float values embeddings are built from
Floats == {1, 2}
\* every embedding vector of at most MaxDim floats (the empty one included)
Vectors == UNION {[1..n -> Floats] : n \in 0..MaxDim}
\* strings a caller passes for url / modality / local_path
Strs == {"", "a", "b"}
\* category names used by callers
Names == {"diet", "work"}
\* item summaries used by callers
Summaries == {"s", "s2"}
\* str(uuid.uuid4()): the n-th identifier handed out
Uuid(n) == "u" \o ToString(n)
\* an identifier that refers to no entity (references are not validated)
Dangling == "u0"

(* ------------------------------------------------------ embedding codec *)
\* repr() of a float as json.dumps writes it
FloatRepr(x) == ToString(x) \o ".0"

\* the elements json.dumps can serialise
Serializable(s) == \A i \in 1..Len(s) : s[i] \in Int

RECURSIVE DumpsElems(_)
DumpsElems(s) ==
  IF s = <<>> THEN <<>>
  ELSE IF Len(s) = 1 THEN <<FloatRepr(s[1])>>
  ELSE <<FloatRepr(s[1]), ", ">> \o DumpsElems(Tail(s))

\* json.dumps(list, ensure_ascii=False): [ok, text]; ok = FALSE when it raises
json_dumps(s) ==
  IF Serializable(s)
  THEN [ok |-> TRUE, text |-> TextOf(<<"[">> \o DumpsElems(s) \o <<"]">>)]
  ELSE [ok |-> FALSE, text |-> NoEmb]

\* the emb_value an upsert binds to the embedding column
EncodeEmbedding(emb) ==
  IF emb.t = "list"
  THEN LET d == json_dumps(emb.v) IN IF d.ok THEN d.text ELSE NoEmb
  ELSE emb

IsNumberToken(tok) == \E x \in Floats : FloatRepr(x) = tok
NumberOf(tok) == CHOOSE x \in Floats : FloatRepr(x) = tok
IsSeparator(tok) == tok \in {", ", ","}

\* the elements between the brackets: number (separator number)*
RECURSIVE ParseElems(_)
ParseElems(toks) ==
  IF toks = <<>> THEN [ok |-> TRUE, v |-> <<>>]
  ELSE IF ~IsNumberToken(toks[1]) THEN [ok |-> FALSE, v |-> <<>>]
  ELSE IF Len(toks) = 1 THEN [ok |-> TRUE, v |-> <<NumberOf(toks[1])>>]
  ELSE IF Len(toks) = 2 \/ ~IsSeparator(toks[2]) THEN [ok |-> FALSE, v |-> <<>>]
  ELSE LET rest == ParseElems(SubSeq(toks, 3, Len(toks)))
       IN  [ok |-> rest.ok, v |-> <<NumberOf(toks[1])>> \o rest.v]

\* json.loads(text): [ok, val]; ok = FALSE when it raises; val is a list or
\* another JSON value
json_loads(toks) ==
  IF Len(toks) >= 2 /\ toks[1] = "[" /\ toks[Len(toks)] = "]"
  THEN LET p == ParseElems(SubSeq(toks, 2, Len(toks) - 1))
       IN  IF p.ok THEN [ok |-> TRUE, val |-> ListOf(p.v)]
           ELSE [ok |-> FALSE, val |-> NoEmb]
  ELSE IF Len(toks) = 1 /\ IsNumberToken(toks[1])
  THEN [ok |-> TRUE, val |-> [t |-> "float", v |-> <<NumberOf(toks[1])>>]]
  ELSE [ok |-> FALSE, val |-> NoEmb]

\* a decode that forgets json.loads: only a value that is already a list counts
DecodeEmbedding_NoParse(col) ==
  IF col.t = "list" THEN ListOf(col.v) ELSE NoEmb

\* load_into_store: the embedding of a loaded entity, from its column value
DecodeEmbedding(col) ==
  LET emb == IF col.t = "str"
             THEN LET p == json_loads(col.v) IN IF p.ok THEN p.val ELSE NoEmb
             ELSE col
  IN  IF emb.t = "list" THEN ListOf(emb.v) ELSE NoEmb

\* str(x or ""): None and the empty string both give ""
StrOrEmpty(x) == IF x = None \/ x = "" THEN "" ELSE x
\* str(x) if x is not None else None
StrOrNone(x) == IF x # None THEN x ELSE None

(* ------------------------------------------------------------- state *)
VARIABLES
  hasDb,      \* PersistentStoreProxy.db is not None
  reachable,  \* asyncpg.create_pool(dsn) can connect
  inp,        \* the values the caller passes in this run
  limit,      \* number of calls the caller makes in this run
  store,      \* PersistentStoreProxy.store: the InMemoryStore
  pg,         \* the PostgresClient (pool) and the database behind its dsn
  nextId,     \* the next identifier uuid.uuid4() hands out
  calls,      \* calls made so far; the database clock now() follows it
  last,       \* the last call: its operation, argument and outcome
  hist,       \* what has happened so far (counters the claims speak about)
  tasks       \* the asyncio tasks that call the driver: where each one is

vars ==
  <<hasDb, reachable, inp, limit, store, pg, nextId, calls, last, hist, tasks>>

\* self.pool = None
NoPool == 0

\* dict[key] = value
DictSet(d, k, val) == [x \in DOMAIN d \cup {k} |-> IF x = k THEN val ELSE d[x]]

EmptyDict == [x \in {} |-> None]

\* InMemoryStore(): no entity, no relation
EmptyStore ==
  [resources |-> EmptyDict, categories |-> EmptyDict, items |-> EmptyDict,
   relations |-> <<>>]

\* the four tables of the schema, without rows
EmptyTables ==
  [resources |-> <<>>, categories |-> <<>>, items |-> <<>>, relations |-> <<>>]

(* ------------------------------------------------ in-memory repository *)
\* InMemoryStore.create_resource: a fresh id, stored by id
create_resource(st, id, url, modality, local_path) ==
  LET res == [id |-> id, url |-> url, local_path |-> local_path,
              modality |-> modality, caption |-> None, embedding |-> NoEmb]
  IN  [store |-> [st EXCEPT !.resources = DictSet(@, id, res)], ent |-> res]

\* the categories of the repository that carry this name
CategoriesNamed(st, name) ==
  {c \in DOMAIN st.categories : st.categories[c].name = name}

\* InMemoryStore.get_or_create_category: the existing category of that name,
\* unchanged, or a new one under a fresh id
get_or_create_category(st, id, name, description, embedding) ==
  IF CategoriesNamed(st, name) # {}
  THEN [store |-> st,
        ent |-> st.categories[CHOOSE c \in CategoriesNamed(st, name) : TRUE],
        created |-> FALSE]
  ELSE LET cat == [id |-> id, name |-> name, description |-> description,
                   summary |-> None, embedding |-> embedding]
       IN  [store |-> [st EXCEPT !.categories = DictSet(@, id, cat)],
            ent |-> cat, created |-> TRUE]

\* InMemoryStore.create_item: always a new item; resource_id is not validated
create_item(st, id, resource_id, memory_type, summary, embedding) ==
  LET item == [id |-> id, resource_id |-> resource_id,
               memory_type |-> memory_type, summary |-> summary,
               embedding |-> embedding]
  IN  [store |-> [st EXCEPT !.items = DictSet(@, id, item)], ent |-> item]

\* InMemoryStore.link_item_category: appends; no check for an existing link
link_item_category(st, item_id, cat_id) ==
  LET rel == [item_id |-> item_id, category_id |-> cat_id]
  IN  [store |-> [st EXCEPT !.relations = Append(@, rel)], ent |-> rel]

(* ----------------------------------------------------- durable tables *)
HasId(tbl, id) == \E i \in 1..Len(tbl) : tbl[i].id = id

\* a plain INSERT, without the ON CONFLICT clause
InsertOrOverwrite_NoConflict(tbl, row) == Append(tbl, row)

\* an INSERT ... ON CONFLICT (id) DO NOTHING: the first write stays
InsertOrOverwrite_KeepFirst(tbl, row) ==
  IF HasId(tbl, row.id) THEN tbl ELSE Append(tbl, row)

\* INSERT ... ON CONFLICT (id) DO UPDATE SET every column = EXCLUDED.column
InsertOrOverwrite(tbl, row) ==
  IF HasId(tbl, row.id)
  THEN [i \in 1..Len(tbl) |-> IF tbl[i].id = row.id THEN row ELSE tbl[i]]
  ELSE Append(tbl, row)

\* an items upsert whose DO UPDATE also sets created_at = EXCLUDED.created_at
InsertOrUpdateItem_AllColumns(tbl, row) ==
  IF HasId(tbl, row.id)
  THEN [i \in 1..Len(tbl) |-> IF tbl[i].id = row.id THEN row ELSE tbl[i]]
  ELSE Append(tbl, row)

\* INSERT INTO items ... ON CONFLICT (id) DO UPDATE SET summary, embedding
InsertOrUpdateItem(tbl, row) ==
  IF HasId(tbl, row.id)
  THEN [i \in 1..Len(tbl) |->
          IF tbl[i].id = row.id
          THEN [tbl[i] EXCEPT !.summary = row.summary,
                              !.embedding = row.embedding]
          ELSE tbl[i]]
  ELSE Append(tbl, row)

\* an insert that also skips a row whose (item_id, category_id) is present
InsertOrSkip_UniquePair(tbl, row) ==
  IF \/ HasId(tbl, row.id)
     \/ \E i \in 1..Len(tbl) : /\ tbl[i].item_id = row.item_id
                                /\ tbl[i].category_id = row.category_id
  THEN tbl ELSE Append(tbl, row)

\* INSERT INTO relations ... ON CONFLICT (id) DO NOTHING
InsertOrSkip(tbl, row) ==
  IF HasId(tbl, row.id) THEN tbl ELSE Append(tbl, row)

ResourceRow(res) ==
  [id |-> res.id, url |-> res.url, local_path |-> res.local_path,
   modality |-> res.modality, caption |-> res.caption,
   embedding |-> EncodeEmbedding(res.embedding),
   embed_model |-> None, embed_dim |-> EmbedDim]

CategoryRow(cat) ==
  [id |-> cat.id, name |-> cat.name, description |-> cat.description,
   summary |-> cat.summary, embedding |-> EncodeEmbedding(cat.embedding),
   embed_model |-> None, embed_dim |-> EmbedDim]

ItemRow(item, now) ==
  [id |-> item.id, summary |-> item.summary,
   embedding |-> EncodeEmbedding(item.embedding), created_at |-> now]

RelationRow(rel, id) ==
  [id |-> id, item_id |-> rel.item_id, category_id |-> rel.category_id]

(* ------------------------------------------------------ PostgresClient *)
\* an ensure_pool that does not test self.pool: a new pool at every call
ensure_pool_Always(p) ==
  IF reachable
  THEN [pg |-> [p EXCEPT !.pool = p.created + 1, !.created = @ + 1],
        raised |-> FALSE]
  ELSE [pg |-> p, raised |-> TRUE]

\* ensure_pool: create the pool when self.pool is None; create_pool raises
\* when the store cannot be reached, and self.pool then stays None
ensure_pool(p) ==
  IF p.pool = NoPool
  THEN IF reachable
       THEN [pg |-> [p EXCEPT !.pool = p.created + 1, !.created = @ + 1],
             raised |-> FALSE]
       ELSE [pg |-> p, raised |-> TRUE]
  ELSE [pg |-> p, raised |-> FALSE]

\* the prologue of every driver operation: ensure_pool, the early return on
\* an unset pool, and pool.acquire() (which raises on a closed pool)
Acquire(p) ==
  LET e == ensure_pool(p)
  IN  [pg |-> e.pg,
       outcome |-> IF e.raised THEN "raise"
                   ELSE IF e.pg.pool = NoPool THEN "return"
                   ELSE IF e.pg.closed THEN "raise"
                   ELSE "query"]

\* the outcome of an operation that did not reach its query
NoQuery(a, value) ==
  [pg |-> a.pg, ret |-> IF a.outcome = "raise" THEN "raise" ELSE value,
   query |-> FALSE]

\* a close that also resets self.pool to None
close_ResetsPool(p) ==
  IF p.pool # NoPool THEN [p EXCEPT !.pool = NoPool] ELSE p

\* close: closes the pool when one is set; self.pool keeps its value
close(p) ==
  IF p.pool # NoPool THEN [p EXCEPT !.closed = TRUE] ELSE p

upsert_resource(p, res) ==
  LET a == Acquire(p)
  IN  IF a.outcome # "query" THEN NoQuery(a, "None")
      ELSE [pg |-> [a.pg EXCEPT !.tables.resources =
                                  InsertOrOverwrite(@, ResourceRow(res))],
            ret |-> "None", query |-> TRUE]

upsert_category(p, cat) ==
  LET a == Acquire(p)
  IN  IF a.outcome # "query" THEN NoQuery(a, "None")
      ELSE [pg |-> [a.pg EXCEPT !.tables.categories =
                                  InsertOrOverwrite(@, CategoryRow(cat))],
            ret |-> "None", query |-> TRUE]

upsert_item(p, item, now) ==
  LET a == Acquire(p)
  IN  IF a.outcome # "query" THEN NoQuery(a, "None")
      ELSE [pg |-> [a.pg EXCEPT !.tables.items =
                                  InsertOrUpdateItem(@, ItemRow(item, now))],
            ret |-> "None", query |-> TRUE]

upsert_relation(p, rel, id) ==
  LET a == Acquire(p)
  IN  IF a.outcome # "query" THEN NoQuery(a, "None")
      ELSE [pg |-> [a.pg EXCEPT !.tables.relations =
                                  InsertOrSkip(@, RelationRow(rel, id))],
            ret |-> "None", query |-> TRUE]

\* load_into_store, the categories loop
RECURSIVE LoadCategories(_, _)
LoadCategories(rows, cats) ==
  IF rows = <<>> THEN cats
  ELSE LET r == Head(rows)
           cat == [id |-> r.id, name |-> StrOrEmpty(r.name),
                   description |-> StrOrEmpty(r.description),
                   summary |-> StrOrNone(r.summary),
                   embedding |-> DecodeEmbedding(r.embedding)]
       IN  LoadCategories(Tail(rows), DictSet(cats, cat.id, cat))

\* a resources loop that reads modality from column 2 and local_path from 3
LoadResources_SwappedColumns(rows, ress) ==
  LET Res(r) == [id |-> r.id, url |-> StrOrEmpty(r.url),
                 local_path |-> StrOrEmpty(r.modality),
                 modality |-> StrOrEmpty(r.local_path),
                 caption |-> StrOrNone(r.caption),
                 embedding |-> DecodeEmbedding(r.embedding)]
  IN  [id \in DOMAIN ress \cup {rows[i].id : i \in 1..Len(rows)} |->
         IF HasId(rows, id)
         THEN Res(rows[CHOOSE i \in 1..Len(rows) : rows[i].id = id])
         ELSE ress[id]]

\* load_into_store, the resources loop
RECURSIVE LoadResources(_, _)
LoadResources(rows, ress) ==
  IF rows = <<>> THEN ress
  ELSE LET r == Head(rows)
           res == [id |-> r.id, url |-> StrOrEmpty(r.url),
                   local_path |-> StrOrEmpty(r.local_path),
                   modality |-> StrOrEmpty(r.modality),
                   caption |-> StrOrNone(r.caption),
                   embedding |-> DecodeEmbedding(r.embedding)]
       IN  LoadResources(Tail(rows), DictSet(ress, res.id, res))

\* an items loop that keeps resource_id and memory_type of an item the
\* repository already holds under the row's id
LoadItems_KeepKnown(rows, its) ==
  LET Item(r) == [id |-> r.id,
                  resource_id |-> IF r.id \in DOMAIN its
                                  THEN its[r.id].resource_id ELSE "",
                  memory_type |-> IF r.id \in DOMAIN its
                                  THEN its[r.id].memory_type ELSE "knowledge",
                  summary |-> StrOrEmpty(r.summary),
                  embedding |-> DecodeEmbedding(r.embedding)]
  IN  [id \in DOMAIN its \cup {rows[i].id : i \in 1..Len(rows)} |->
         IF HasId(rows, id)
         THEN Item(rows[CHOOSE i \in 1..Len(rows) : rows[i].id = id])
         ELSE its[id]]

\* load_into_store, the items loop
RECURSIVE LoadItems(_, _)
LoadItems(rows, its) ==
  IF rows = <<>> THEN its
  ELSE LET r == Head(rows)
           item == [id |-> r.id, resource_id |-> "",
                    memory_type |-> "knowledge",
                    summary |-> StrOrEmpty(r.summary),
                    embedding |-> DecodeEmbedding(r.embedding)]
       IN  LoadItems(Tail(rows), DictSet(its, item.id, item))

\* a relations loop that starts from an empty list
LoadRelations_Replacing(rows, rels) ==
  [i \in 1..Len(rows) |->
     [item_id |-> rows[i].item_id, category_id |-> rows[i].category_id]]

\* a relations loop that skips a row whose link the repository already has
LoadRelations_SkipKnown(rows, rels) ==
  LET Rel(r) == [item_id |-> r.item_id, category_id |-> r.category_id]
      Known(r) == \E i \in 1..Len(rels) : rels[i] = Rel(r)
  IN  rels \o [i \in 1..Len(SelectSeq(rows, LAMBDA r : ~Known(r))) |->
                 Rel(SelectSeq(rows, LAMBDA r : ~Known(r))[i])]

\* load_into_store, the relations loop
RECURSIVE LoadRelations(_, _)
LoadRelations(rows, rels) ==
  IF rows = <<>> THEN rels
  ELSE LET r == Head(rows)
       IN  LoadRelations(Tail(rows),
             Append(rels, [item_id |-> r.item_id, category_id |-> r.category_id]))

\* a reload that rebuilds the repository from the rows alone
load_into_store_Replacing(p, st) ==
  LET a == Acquire(p)
  IN  IF a.outcome # "query" THEN NoQuery(a, "False") @@ [store |-> st]
      ELSE [pg |-> a.pg,
            store |->
              [categories |-> LoadCategories(a.pg.tables.categories, EmptyDict),
               resources |-> LoadResources(a.pg.tables.resources, EmptyDict),
               items |-> LoadItems(a.pg.tables.items, EmptyDict),
               relations |-> LoadRelations(a.pg.tables.relations, <<>>)],
            ret |-> "True", query |-> TRUE]

\* a reload whose json.loads is not inside try/except: a row with text that
\* is no JSON makes the whole call raise
load_into_store_AbortOnBadRow(p, st) ==
  LET a == Acquire(p)
      Bad(tbl) == \E i \in 1..Len(tbl) :
                    tbl[i].embedding.t = "str" /\ ~json_loads(tbl[i].embedding.v).ok
  IN  IF a.outcome # "query" THEN NoQuery(a, "False") @@ [store |-> st]
      ELSE IF Bad(a.pg.tables.categories) \/ Bad(a.pg.tables.resources)
              \/ Bad(a.pg.tables.items)
      THEN [pg |-> a.pg, store |-> st, ret |-> "raise", query |-> TRUE]
      ELSE [pg |-> a.pg,
            store |->
              [categories |-> LoadCategories(a.pg.tables.categories, st.categories),
               resources |-> LoadResources(a.pg.tables.resources, st.resources),
               items |-> LoadItems(a.pg.tables.items, st.items),
               relations |-> LoadRelations(a.pg.tables.relations, st.relations)],
            ret |-> "True", query |-> TRUE]

load_into_store(p, st) ==
  LET a == Acquire(p)
  IN  IF a.outcome # "query" THEN NoQuery(a, "False") @@ [store |-> st]
      ELSE [pg |-> a.pg,
            store |->
              [categories |-> LoadCategories(a.pg.tables.categories, st.categories),
               resources |-> LoadResources(a.pg.tables.resources, st.resources),
               items |-> LoadItems(a.pg.tables.items, st.items),
               relations |-> LoadRelations(a.pg.tables.relations, st.relations)],
            ret |-> "True", query |-> TRUE]

(* ------------------------------------------------ PersistentStoreProxy *)
\* the outcome of a proxy call that does not reach the driver
Skipped(p, value) == [pg |-> p, ret |-> value, query |-> FALSE]

persist_resource(p, res) ==
  IF hasDb THEN upsert_resource(p, res) ELSE Skipped(p, "None")

persist_category(p, cat) ==
  IF hasDb THEN upsert_category(p, cat) ELSE Skipped(p, "None")

persist_item(p, item, now) ==
  IF hasDb THEN upsert_item(p, item, now) ELSE Skipped(p, "None")

persist_relation(p, rel, id) ==
  IF hasDb THEN upsert_relation(p, rel, id) ELSE Skipped(p, "None")

\* a load_all without the "if self.db" guard
load_all_Unguarded(p, st) == load_into_store(p, st)

load_all(p, st) ==
  IF hasDb THEN load_into_store(p, st)
  ELSE Skipped(p, "False") @@ [store |-> st]

(* ------------------------------------------------------ initial states *)
\* the scenario of the specification: one resource description, and the
\* embeddings a caller attaches (none, or a two-element vector)
MainInput ==
  [url |-> "http://x", modality |-> "text", local_path |-> "/tmp/x",
   embs |-> {NoEmb, ListOf(<<1, 2>>)}]

\* round-trip inputs: every description over Strs, and every vector
RTInputs ==
  {[url |-> u, modality |-> m, local_path |-> l, embs |-> {ListOf(<<2, 1>>)}] :
     u \in Strs, m \in Strs, l \in Strs}
  \cup
  {[url |-> "http://x", modality |-> "text", local_path |-> "/tmp/x",
    embs |-> {ListOf(v)}] : v \in Vectors}

\* embedding values that are text, not lists: text that is no JSON, and JSON
\* text of a number
BadTexts == {TextOf(<<"garbage">>), TextOf(<<"1.0">>)}

\* inputs with a malformed embedding next to a well-formed one
BadInputs ==
  {[url |-> "http://x", modality |-> "text", local_path |-> "/tmp/x",
    embs |-> {bad, ListOf(<<1, 2>>)}] : bad \in BadTexts}

NoArg == [id |-> Dangling]

\* the asyncio tasks that share the driver
Tasks == {"t1", "t2"}

\* a task that is not inside a driver call
IdleTask ==
  [pc |-> "idle", op |-> "none", arg |-> NoArg, held |-> 0, ret |-> "None"]

\* the state after PostgresClient(dsn), InMemoryStore() and
\* PersistentStoreProxy(store, db) over an empty database
Constructed ==
  /\ store = EmptyStore
  /\ pg = [pool |-> NoPool, closed |-> FALSE, created |-> 0,
           tables |-> EmptyTables]
  /\ nextId = 1
  /\ calls = 0
  /\ last = [op |-> "init", arg |-> NoArg, ret |-> "None", query |-> FALSE,
             rep |-> FALSE]
  /\ hist = [raised |-> 0, usedPools |-> {}, relUpserts |-> 0,
             asked |-> [n \in Names |-> 0],
             returned |-> [n \in Names |-> {}],
             created |-> [n \in Names |-> 0],
             persists |-> [x \in {} |-> 0]]
  /\ tasks = [t \in Tasks |-> IdleTask]

Init ==
  /\ hasDb \in BOOLEAN
  /\ reachable \in BOOLEAN
  /\ inp = MainInput
  /\ limit = MaxCalls
  /\ Constructed

InitRT ==
  /\ hasDb = TRUE
  /\ reachable = TRUE
  /\ inp \in RTInputs
  /\ limit = MaxCallsRT
  /\ Constructed

InitBad ==
  /\ hasDb = TRUE
  /\ reachable = TRUE
  /\ inp \in BadInputs
  /\ limit = MaxCallsBad
  /\ Constructed

(* ------------------------------------------------------------- actions *)
\* the proxy calls that upsert an entity stored by id
UpsertOps == {"persist_resource", "persist_category", "persist_item"}

\* the number of persist calls issued so far for the entity of this id
PersistsOf(h, id) == IF id \in DOMAIN h.persists THEN h.persists[id] ELSE 0

\* bookkeeping common to every call: r is the outcome of the call; rep tells
\* that the call repeats the previous one (same operation, same argument)
Finish(op, arg, r) ==
  LET goc == op = "get_or_create_category"
  IN
  /\ calls' = calls + 1
  /\ pg' = r.pg
  /\ last' = [op |-> op, arg |-> arg, ret |-> r.ret, query |-> r.query,
              rep |-> last.op = op /\ last.arg = arg]
  /\ hist' =
       [raised |-> IF r.ret = "raise" THEN hist.raised + 1 ELSE hist.raised,
        usedPools |-> IF r.query THEN hist.usedPools \cup {r.pg.pool}
                      ELSE hist.usedPools,
        relUpserts |-> IF op = "persist_relation" /\ hasDb /\ r.ret # "raise"
                       THEN hist.relUpserts + 1 ELSE hist.relUpserts,
        asked |-> IF goc THEN [hist.asked EXCEPT ![arg.name] = @ + 1]
                  ELSE hist.asked,
        returned |-> IF goc THEN [hist.returned EXCEPT ![arg.name] = @ \cup {arg.id}]
                     ELSE hist.returned,
        created |-> IF goc /\ r.created
                    THEN [hist.created EXCEPT ![arg.name] = @ + 1]
                    ELSE hist.created,
        persists |-> IF op \in UpsertOps
                     THEN DictSet(hist.persists, arg.id,
                                  PersistsOf(hist, arg.id) + 1)
                     ELSE hist.persists]
  /\ UNCHANGED <<hasDb, reachable, inp, limit, tasks>>

\* proxy.create_resource(url=..., modality=..., local_path=...)
CreateResource ==
  /\ calls < limit
  /\ LET c == create_resource(store, Uuid(nextId), inp.url, inp.modality,
                              inp.local_path)
     IN  /\ store' = c.store
         /\ nextId' = nextId + 1
         /\ Finish("create_resource", c.ent, Skipped(pg, "entity"))

\* the caller assigns res.embedding on a resource of the repository
SetResourceEmbedding(id, emb) ==
  /\ calls < limit
  /\ id \in DOMAIN store.resources
  /\ store.resources[id].embedding # emb
  /\ store' = [store EXCEPT !.resources[id].embedding = emb]
  /\ UNCHANGED nextId
  /\ Finish("set_embedding", store'.resources[id], Skipped(pg, "None"))

\* proxy.get_or_create_category(name=..., description=..., embedding=...)
GetOrCreateCategory(name, emb) ==
  /\ calls < limit
  /\ LET c == get_or_create_category(store, Uuid(nextId), name, "d", emb)
     IN  /\ store' = c.store
         /\ nextId' = IF c.created THEN nextId + 1 ELSE nextId
         /\ Finish("get_or_create_category", c.ent,
                   Skipped(pg, "entity") @@ [created |-> c.created])

\* a create_item that also mirrors the new item into the durable store
CreateItem_WriteThrough(resource_id, emb) ==
  /\ calls < limit
  /\ LET c == create_item(store, Uuid(nextId), resource_id, "event", "s", emb)
     IN  /\ store' = c.store
         /\ nextId' = nextId + 1
         /\ Finish("create_item", c.ent,
                   [persist_item(pg, c.ent, calls + 1) EXCEPT !.ret = "entity"])

\* proxy.create_item(resource_id=..., memory_type=..., summary=..., embedding=...)
CreateItem(resource_id, emb) ==
  /\ calls < limit
  /\ LET c == create_item(store, Uuid(nextId), resource_id, "event", "s", emb)
     IN  /\ store' = c.store
         /\ nextId' = nextId + 1
         /\ Finish("create_item", c.ent, Skipped(pg, "entity"))

\* the caller assigns item.summary on an item of the repository
SetItemSummary(id, summary) ==
  /\ calls < limit
  /\ id \in DOMAIN store.items
  /\ store.items[id].summary # summary
  /\ store' = [store EXCEPT !.items[id].summary = summary]
  /\ UNCHANGED nextId
  /\ Finish("set_summary", store'.items[id], Skipped(pg, "None"))

\* proxy.link_item_category(item_id, cat_id)
LinkItemCategory(item_id, cat_id) ==
  /\ calls < limit
  /\ LET c == link_item_category(store, item_id, cat_id)
     IN  /\ store' = c.store
         /\ UNCHANGED nextId
         /\ Finish("link_item_category", c.ent, Skipped(pg, "entity"))

\* await proxy.persist_resource(res), res a resource of the repository
PersistResource(id) ==
  /\ calls < limit
  /\ id \in DOMAIN store.resources
  /\ UNCHANGED <<store, nextId>>
  /\ Finish("persist_resource", store.resources[id],
            persist_resource(pg, store.resources[id]))

\* await proxy.persist_category(cat)
PersistCategory(id) ==
  /\ calls < limit
  /\ id \in DOMAIN store.categories
  /\ UNCHANGED <<store, nextId>>
  /\ Finish("persist_category", store.categories[id],
            persist_category(pg, store.categories[id]))

\* await proxy.persist_item(item); the statement runs at time now() = calls + 1
PersistItem(id) ==
  /\ calls < limit
  /\ id \in DOMAIN store.items
  /\ UNCHANGED <<store, nextId>>
  /\ Finish("persist_item", store.items[id],
            persist_item(pg, store.items[id], calls + 1))

\* await proxy.persist_relation(rel), rel a relation of the repository
PersistRelation(i) ==
  /\ calls < limit
  /\ i \in 1..Len(store.relations)
  /\ LET r == persist_relation(pg, store.relations[i], Uuid(nextId))
     IN  /\ nextId' = IF r.query THEN nextId + 1 ELSE nextId
         /\ Finish("persist_relation", store.relations[i], r)
  /\ UNCHANGED store

\* await proxy.load_all()
LoadAll ==
  /\ calls < limit
  /\ LET r == load_all(pg, store)
     IN  /\ store' = r.store
         /\ Finish("load_all", NoArg, r)
  /\ UNCHANGED nextId

\* await db.close(), by the owner of the driver
Close ==
  /\ calls < limit
  /\ hasDb
  /\ UNCHANGED <<store, nextId>>
  /\ Finish("close", NoArg, Skipped(close(pg), "None"))

\* the identifiers a caller may pass where an item / a category is meant
ItemRefs == DOMAIN store.items \cup {Dangling}
CategoryRefs == DOMAIN store.categories \cup {Dangling}
ResourceRefs == DOMAIN store.resources \cup {Dangling}

Next ==
  \/ CreateResource
  \/ \E id \in DOMAIN store.resources, emb \in inp.embs :
       SetResourceEmbedding(id, emb)
  \/ \E name \in Names, emb \in inp.embs : GetOrCreateCategory(name, emb)
  \/ \E rid \in ResourceRefs, emb \in inp.embs : CreateItem(rid, emb)
  \/ \E id \in DOMAIN store.items, sm \in Summaries : SetItemSummary(id, sm)
  \/ \E i \in ItemRefs, c \in CategoryRefs : LinkItemCategory(i, c)
  \/ \E id \in DOMAIN store.resources : PersistResource(id)
  \/ \E id \in DOMAIN store.categories : PersistCategory(id)
  \/ \E id \in DOMAIN store.items : PersistItem(id)
  \/ \E i \in 1..Len(store.relations) : PersistRelation(i)
  \/ LoadAll
  \/ Close

Spec == Init /\ [][Next]_vars

\* the same program, run on the round-trip inputs
SpecRT == InitRT /\ [][Next]_vars

\* the calls that write and reload categories and items
NextBad ==
  \/ \E name \in Names, emb \in inp.embs : GetOrCreateCategory(name, emb)
  \/ \E emb \in inp.embs : CreateItem(Dangling, emb)
  \/ \E id \in DOMAIN store.categories : PersistCategory(id)
  \/ \E id \in DOMAIN store.items : PersistItem(id)
  \/ LoadAll

\* categories and items with malformed embeddings, persisted and reloaded
SpecBad == InitBad /\ [][NextBad]_vars

(* ---------------------------------------------------- concurrent tasks *)
\* A driver call runs up to its next await in one step. The awaits of a call:
\* asyncpg.create_pool (inside ensure_pool), pool.acquire, and each
\* conn.execute / conn.fetch; the block "async with" releases the connection
\* when the call leaves it.

\* the driver calls a task issues
DriverOps == {"upsert_category", "load_into_store"}

\* the fetches of load_into_store, in the order of the code
Fetches == <<"fetch_categories", "fetch_resources", "fetch_items",
             "fetch_relations">>

\* the positions at which a task waits for a statement on its connection
QueryPcs == {"execute"} \cup {Fetches[i] : i \in DOMAIN Fetches}

\* ensure_pool up to its await: the task tests "self.pool is None" and either
\* suspends in create_pool or goes on to pool.acquire()
EnterOp(p, op, arg) ==
  [pc |-> IF p.pool = NoPool THEN "create_pool" ELSE "acquire",
   op |-> op, arg |-> arg, held |-> 0, ret |-> "None"]

\* an ensure_pool that tests self.pool again after create_pool has returned
AssignPool_Rechecked(p) ==
  IF p.pool = NoPool
  THEN [p EXCEPT !.pool = p.created + 1, !.created = @ + 1]
  ELSE [p EXCEPT !.created = @ + 1]

\* self.pool = <the pool create_pool returned>, after the await
AssignPool(p) == [p EXCEPT !.pool = p.created + 1, !.created = @ + 1]

\* a block that gives the connection back only when its body did not raise
ReleaseOnExit_SuccessOnly(task, ret) ==
  [task EXCEPT !.pc = "idle", !.ret = ret,
               !.held = IF ret = "raise" THEN @ ELSE @ - 1]

\* leaving "async with self.pool.acquire() as conn": the connection goes back
\* to the pool, and the call returns ret or raises
ReleaseOnExit(task, ret) ==
  [task EXCEPT !.pc = "idle", !.ret = ret, !.held = @ - 1]

\* what a step of a task leaves alone
TaskStepKeeps == UNCHANGED <<hasDb, reachable, inp, limit, nextId, last, hist>>

\* task t calls await db.<op>(arg) and runs to the first await
BeginOp(t, op, arg) ==
  /\ calls < limit
  /\ tasks[t].pc = "idle"
  /\ tasks' = [tasks EXCEPT ![t] = EnterOp(pg, op, arg)]
  /\ calls' = calls + 1
  /\ UNCHANGED <<store, pg>>
  /\ TaskStepKeeps

\* create_pool returns to task t: the pool is assigned, then "if self.pool is
\* None" is false and the task goes on to pool.acquire()
PoolCreated(t) ==
  /\ tasks[t].pc = "create_pool"
  /\ reachable
  /\ pg' = AssignPool(pg)
  /\ tasks' = [tasks EXCEPT ![t].pc = "acquire"]
  /\ UNCHANGED <<store, calls>>
  /\ TaskStepKeeps

\* create_pool raises in task t: the call ends with the exception
PoolFailed(t) ==
  /\ tasks[t].pc = "create_pool"
  /\ ~reachable
  /\ tasks' = [tasks EXCEPT ![t] = [@ EXCEPT !.pc = "idle", !.ret = "raise"]]
  /\ UNCHANGED <<store, pg, calls>>
  /\ TaskStepKeeps

\* pool.acquire() hands task t a connection; the task sends its first statement
Acquired(t) ==
  /\ tasks[t].pc = "acquire"
  /\ tasks' = [tasks EXCEPT ![t] =
                 [@ EXCEPT !.held = @ + 1,
                           !.pc = IF tasks[t].op = "load_into_store"
                                  THEN Fetches[1] ELSE "execute"]]
  /\ UNCHANGED <<store, pg, calls>>
  /\ TaskStepKeeps

\* the INSERT of upsert_category completes in task t; the call returns
Executed(t) ==
  /\ tasks[t].pc = "execute"
  /\ pg' = [pg EXCEPT !.tables.categories =
                        InsertOrOverwrite(@, CategoryRow(tasks[t].arg))]
  /\ tasks' = [tasks EXCEPT ![t] = ReleaseOnExit(@, "None")]
  /\ UNCHANGED <<store, calls>>
  /\ TaskStepKeeps

\* a SELECT of load_into_store completes in task t: its loop runs, and the
\* task sends the next SELECT or, after the last one, returns True
Fetched(t) ==
  /\ \E i \in DOMAIN Fetches :
       /\ tasks[t].pc = Fetches[i]
       /\ store' =
            CASE i = 1 -> [store EXCEPT !.categories =
                             LoadCategories(pg.tables.categories, @)]
              [] i = 2 -> [store EXCEPT !.resources =
                             LoadResources(pg.tables.resources, @)]
              [] i = 3 -> [store EXCEPT !.items = LoadItems(pg.tables.items, @)]
              [] OTHER -> [store EXCEPT !.relations =
                             LoadRelations(pg.tables.relations, @)]
       /\ tasks' = [tasks EXCEPT ![t] =
                      IF i < Len(Fetches) THEN [@ EXCEPT !.pc = Fetches[i + 1]]
                      ELSE ReleaseOnExit(@, "True")]
  /\ UNCHANGED <<pg, calls>>
  /\ TaskStepKeeps

\* the statement task t waits for raises: the exception leaves the block
QueryFailed(t) ==
  /\ tasks[t].pc \in QueryPcs
  /\ tasks' = [tasks EXCEPT ![t] = ReleaseOnExit(@, "raise")]
  /\ UNCHANGED <<store, pg, calls>>
  /\ TaskStepKeeps

InitConc ==
  /\ hasDb = TRUE
  /\ reachable \in BOOLEAN
  /\ inp = MainInput
  /\ limit = MaxCallsConc
  /\ Constructed

NextConc ==
  \/ \E name \in Names, emb \in inp.embs : GetOrCreateCategory(name, emb)
  \/ \E t \in Tasks, id \in DOMAIN store.categories :
       BeginOp(t, "upsert_category", store.categories[id])
  \/ \E t \in Tasks : BeginOp(t, "load_into_store", NoArg)
  \/ \E t \in Tasks : PoolCreated(t)
  \/ \E t \in Tasks : PoolFailed(t)
  \/ \E t \in Tasks : Acquired(t)
  \/ \E t \in Tasks : Executed(t)
  \/ \E t \in Tasks : Fetched(t)
  \/ \E t \in Tasks : QueryFailed(t)

\* two tasks calling one driver, interleaved at the awaits
SpecConc == InitConc /\ [][NextConc]_vars

(* -------------------------------------------------------------- claims *)
\* the rows of a table stored under this id
RowsWithId(tbl, id) == {i \in 1..Len(tbl) : tbl[i].id = id}

\* C1: an upsert of a resource, a category or an item that repeats the
\* previous call (same operation, identical entity) leaves all four tables as
\* the first call left them.
C1_UpsertIdempotent ==
  [][(last'.op \in UpsertOps /\ last'.rep) => pg'.tables = pg.tables]_vars

\* an item has been upserted twice in a row and both statements ran
C1_Witness ==
  /\ last.op = "persist_item" /\ last.rep /\ last.query
  /\ \E i \in 1..Len(pg.tables.items) :
       /\ pg.tables.items[i].id = last.arg.id
       /\ pg.tables.items[i].created_at < calls

\* C2: for every name, get_or_create_category creates exactly one category,
\* every call returns the same id, the repository holds one category of that
\* name, and the categories table holds at most one row for the returned id.
C2_OneCategoryPerName ==
  \A n \in Names :
    /\ hist.created[n] <= 1
    /\ Cardinality(hist.returned[n]) <= 1
    /\ hist.asked[n] > 0 => hist.created[n] = 1
    /\ Cardinality(CategoriesNamed(store, n)) <= 1
    /\ \A id \in hist.returned[n] :
         Cardinality(RowsWithId(pg.tables.categories, id)) <= 1

\* "diet" was asked for again after its category was persisted twice and loaded
C2_Witness ==
  /\ last.op = "get_or_create_category" /\ last.arg.name = "diet"
  /\ hist.asked["diet"] >= 2
  /\ Cardinality(RowsWithId(pg.tables.categories, last.arg.id)) = 1

\* what load_all() builds in a proxy over a new, empty repository
Reloaded == load_all(pg, EmptyStore).store

\* the mapping of the repository an upsert operation's entities live in
MappingOf(st, op) ==
  IF op = "persist_resource" THEN st.resources
  ELSE IF op = "persist_category" THEN st.categories
  ELSE st.items

\* C3: right after a resource, category or item carrying a non-empty embedding
\* vector v has been persisted, a reload into an empty repository holds an
\* entity of the same id whose embedding is v, element by element.
C3_EmbeddingRoundTrip ==
  (/\ last.op \in UpsertOps /\ last.query
   /\ last.arg.embedding.t = "list" /\ Len(last.arg.embedding.v) > 0)
  => /\ last.arg.id \in DOMAIN MappingOf(Reloaded, last.op)
     /\ MappingOf(Reloaded, last.op)[last.arg.id].embedding = last.arg.embedding

\* a resource with a two-element vector of distinct floats has been persisted
C3_Witness ==
  /\ last.op = "persist_resource" /\ last.query
  /\ last.arg.embedding = ListOf(<<2, 1>>)

\* C4: right after a resource has been persisted, a reload into an empty
\* repository holds a resource under the same id with the same url, modality
\* and local_path.
C4_ResourceRoundTrip ==
  (last.op = "persist_resource" /\ last.query)
  => /\ last.arg.id \in DOMAIN Reloaded.resources
     /\ LET res == Reloaded.resources[last.arg.id]
        IN  /\ res.id = last.arg.id
            /\ res.url = last.arg.url
            /\ res.modality = last.arg.modality
            /\ res.local_path = last.arg.local_path

\* a persisted resource whose three attributes differ, one of them empty
C4_Witness ==
  /\ last.op = "persist_resource" /\ last.query
  /\ last.arg.url = "a" /\ last.arg.modality = "b" /\ last.arg.local_path = ""

PersistOps == UpsertOps \cup {"persist_relation"}

\* C5: without a durable store (db is None) no persist call raises or changes
\* anything, and load_all returns false and leaves the repository as it was.
C5_UnconfiguredIsNoOp ==
  [][~hasDb =>
       /\ last'.op \in PersistOps
            => last'.ret = "None" /\ pg' = pg /\ store' = store
       /\ last'.op = "load_all"
            => last'.ret = "False" /\ pg' = pg /\ store' = store]_vars

\* load_all has returned false on an unconfigured proxy whose repository
\* holds a category and a relation
C5_Witness ==
  /\ ~hasDb /\ last.op = "load_all" /\ last.ret = "False"
  /\ store.relations # <<>> /\ DOMAIN store.categories # {}

\* every entry of mapping m is in mapping m2, and unchanged unless tbl has its id
Kept(m, m2, tbl) ==
  \A id \in DOMAIN m :
    /\ id \in DOMAIN m2
    /\ ~HasId(tbl, id) => m2[id] = m[id]

\* C6: a load never removes an entry of the repository, leaves every entity
\* whose id is not in the durable store unchanged, and keeps the relations
\* that were there as a prefix of the relation list.
C6_LoadIsAdditive ==
  [][last'.op = "load_all" =>
       /\ Kept(store.resources, store'.resources, pg'.tables.resources)
       /\ Kept(store.categories, store'.categories, pg'.tables.categories)
       /\ Kept(store.items, store'.items, pg'.tables.items)
       /\ Len(store'.relations) >= Len(store.relations)
       /\ SubSeq(store'.relations, 1, Len(store.relations)) = store.relations]_vars

\* a load that read a category row into a repository which keeps a category
\* the durable store does not have
C6_Witness ==
  /\ last.op = "load_all" /\ last.query
  /\ pg.tables.categories # <<>>
  /\ \E id \in DOMAIN store.categories : ~HasId(pg.tables.categories, id)

\* C7: with a store that cannot be reached, nothing is ever written and the
\* connectivity error is raised at most once over all the calls made on the
\* driver (the calls after the first return silently).
C7_ErrorSurfacedOnce ==
  (hasDb /\ ~reachable) => pg.tables = EmptyTables /\ hist.raised <= 1

\* C8: the relations table holds exactly one row per completed upsert_relation
\* call, all under distinct ids, and the row a call inserted carries the
\* (item_id, category_id) of the relation it was given.
C8_RelationsNeverDeduplicated ==
  LET rels == pg.tables.relations
  IN  /\ Len(rels) = hist.relUpserts
      /\ \A i, j \in 1..Len(rels) : i # j => rels[i].id # rels[j].id
      /\ (last.op = "persist_relation" /\ last.ret # "raise" /\ hasDb)
         => /\ rels # <<>>
            /\ rels[Len(rels)].item_id = last.arg.item_id
            /\ rels[Len(rels)].category_id = last.arg.category_id

\* the same link was made twice and persisted twice: two rows, one pair
C8_Witness ==
  LET rels == pg.tables.relations
  IN  /\ Len(store.relations) = 2 /\ store.relations[1] = store.relations[2]
      /\ Len(rels) = 2
      /\ rels[1].item_id = rels[2].item_id
      /\ rels[1].category_id = rels[2].category_id
      /\ rels[1].id # rels[2].id

\* C9 as stated: a load that repeats the previous load leaves the whole
\* repository, relation list included, as the first load left it.
C9_LoadTwiceIsLoadOnce ==
  [][(last'.op = "load_all" /\ last'.rep) => store' = store]_vars

\* C9 amended: a load that repeats the previous load leaves the three entity
\* mappings as the first load left them, and appends to the relation list
\* one entry per row of the relations table it read.
C9_RepeatedLoadKeepsEntities ==
  [][(last'.op = "load_all" /\ last'.rep) =>
       /\ store'.resources = store.resources
       /\ store'.categories = store.categories
       /\ store'.items = store.items
       /\ Len(store'.relations) =
            Len(store.relations)
              + (IF last'.query THEN Len(pg'.tables.relations) ELSE 0)
       /\ SubSeq(store'.relations, 1, Len(store.relations)) = store.relations]_vars

\* two loads in a row over a store with one relation row: the repository,
\* which had that link already, now holds it three times
C9_Witness ==
  /\ last.op = "load_all" /\ last.rep /\ last.query
  /\ Len(pg.tables.relations) = 1
  /\ Len(store.relations) = 3

\* C10: constructing the driver creates no pool; over sequential calls at most
\* one pool is ever created, it exists before the first query runs, and every
\* query runs on that pool, which stays the driver's pool.
C10_PoolLazyAndCached ==
  /\ calls = 0 => pg.pool = NoPool /\ pg.created = 0
  /\ pg.created <= 1
  /\ pg.pool = pg.created
  /\ hist.usedPools # {} => pg.created = 1 /\ hist.usedPools = {pg.pool}
  /\ (reachable /\ last.op \in PersistOps \cup {"load_all"} /\ hasDb)
       => pg.created = 1

\* an upsert and a later load both ran their queries on the one pool
C10_Witness ==
  /\ last.op = "load_all" /\ last.query
  /\ pg.tables.items # <<>>
  /\ pg.created = 1 /\ hist.usedPools = {1}

\* C11: a load on a configured proxy returns true exactly when it read the
\* tables, and with no pool established it has returned false, leaving the
\* repository as it was.
C11_LoadReturnsFalseWithoutPool ==
  (hasDb /\ last.op = "load_all")
  => /\ last.ret = "True" <=> last.query
     /\ pg.pool = NoPool => last.ret = "False"

\* the table an upsert operation writes
TableOf(t, op) ==
  IF op = "persist_resource" THEN t.resources
  ELSE IF op = "persist_category" THEN t.categories
  ELSE t.items

\* the row holds the columns the upsert takes from entity e
HoldsValue(op, row, e) ==
  /\ DecodeEmbedding(row.embedding) = e.embedding
  /\ op = "persist_resource"
       => /\ row.url = e.url /\ row.local_path = e.local_path
          /\ row.modality = e.modality /\ row.caption = e.caption
  /\ op = "persist_category"
       => /\ row.name = e.name /\ row.description = e.description
          /\ row.summary = e.summary
  /\ op = "persist_item" => row.summary = e.summary

\* mapping m holds entity e as load_into_store rebuilds it
Observes(op, m, e) ==
  /\ e.id \in DOMAIN m
  /\ IF op = "persist_item"
     THEN m[e.id].summary = e.summary /\ m[e.id].embedding = e.embedding
     ELSE m[e.id] = e

\* C14: calls complete in issue order: right after an upsert has run, the one
\* row of its id holds the value just persisted, whatever was persisted under
\* that id before; and a load issued right after an upsert finds that value.
C14_LastWriteWins ==
  [][/\ (last'.op \in UpsertOps /\ last'.query)
          => LET tbl == TableOf(pg'.tables, last'.op)
             IN  /\ Cardinality(RowsWithId(tbl, last'.arg.id)) = 1
                 /\ \A i \in RowsWithId(tbl, last'.arg.id) :
                      HoldsValue(last'.op, tbl[i], last'.arg)
     /\ (last'.op = "load_all" /\ last'.query /\ last.op \in UpsertOps /\ last.query)
          => Observes(last.op, MappingOf(store', last.op), last.arg)]_vars

\* an item was persisted at call 2 with its first summary, given another
\* summary and persisted again: the row holds the later summary
C14_Witness ==
  /\ last.op = "persist_item" /\ last.query /\ last.arg.summary = "s2"
  /\ \E i \in 1..Len(pg.tables.items) :
       /\ pg.tables.items[i].id = last.arg.id
       /\ pg.tables.items[i].created_at = 2
       /\ pg.tables.items[i].summary = "s2"

\* C15: every item row keeps its id and its created_at for ever; a first
\* upsert_item stamps the new row with the time of that call, and a later
\* upsert_item of the same id changes the row's summary and embedding only.
C15_CreatedAtSetOnce ==
  [][LET old == pg.tables.items
         new == pg'.tables.items
         hit(r) == last'.op = "persist_item" /\ last'.query /\ last'.arg.id = r.id
     IN  /\ Len(new) >= Len(old)
         /\ \A i \in 1..Len(old) :
              /\ new[i].id = old[i].id
              /\ new[i].created_at = old[i].created_at
              /\ IF hit(old[i])
                 THEN /\ new[i].summary = last'.arg.summary
                      /\ DecodeEmbedding(new[i].embedding) = last'.arg.embedding
                 ELSE new[i] = old[i]
         /\ \A i \in (Len(old) + 1)..Len(new) :
              hit(new[i]) /\ new[i].created_at = calls']_vars

\* an item row written by an earlier call has been upserted again with a
\* changed summary
C15_Witness ==
  /\ last.op = "persist_item" /\ last.query
  /\ PersistsOf(hist, last.arg.id) >= 2
  /\ \E i \in 1..Len(pg.tables.items) :
       /\ pg.tables.items[i].id = last.arg.id
       /\ pg.tables.items[i].created_at < calls
       /\ pg.tables.items[i].summary # "s"

CreateOps ==
  {"create_resource", "get_or_create_category", "create_item",
   "link_item_category"}

\* no row is stored under the id of an entity of mapping m for which history
\* h records no persist call
UnpersistedAbsent(m, tbl, h) ==
  \A id \in DOMAIN m : PersistsOf(h, id) = 0 => ~HasId(tbl, id)

\* C16: a create call of the proxy leaves the driver, its pool and the tables
\* untouched; a persist call leaves the repository untouched; and an entity
\* for which no persist call was made has no row in the durable store.
C16_CreateAndPersistIndependent ==
  [][/\ last'.op \in CreateOps => pg' = pg
     /\ last'.op \in PersistOps => store' = store
     /\ UnpersistedAbsent(store'.resources, pg'.tables.resources, hist')
     /\ UnpersistedAbsent(store'.categories, pg'.tables.categories, hist')
     /\ UnpersistedAbsent(store'.items, pg'.tables.items, hist')]_vars

\* an item was created after another item had been persisted: the new one
\* is in the repository only
C16_Witness ==
  /\ last.op = "create_item"
  /\ pg.tables.items # <<>>
  /\ PersistsOf(hist, last.arg.id) = 0
  /\ last.arg.id \in DOMAIN store.items
  /\ ~HasId(pg.tables.items, last.arg.id)

\* the column value is JSON text of a list
WellFormed(col) ==
  col.t = "str" /\ json_loads(col.v).ok /\ json_loads(col.v).val.t = "list"

\* the embedding a row's column value stands for, none when it is malformed
EmbeddingOfRow(col) ==
  IF WellFormed(col) THEN json_loads(col.v).val ELSE NoEmb

\* C17: a load over an open pool returns true whatever the rows hold, and
\* afterwards every category row and every item row has its entity in the
\* repository with the row's own fields; the embedding is the row's list when
\* the column is JSON text of a list, and absent otherwise.
C17_MalformedEmbeddingNeverAborts ==
  [][(last'.op = "load_all" /\ ~pg.closed) =>
       /\ last'.ret = "True"
       /\ \A i \in 1..Len(pg'.tables.categories) :
            LET r == pg'.tables.categories[i]
            IN  /\ r.id \in DOMAIN store'.categories
                /\ store'.categories[r.id].name = r.name
                /\ store'.categories[r.id].description = r.description
                /\ store'.categories[r.id].embedding = EmbeddingOfRow(r.embedding)
       /\ \A i \in 1..Len(pg'.tables.items) :
            LET r == pg'.tables.items[i]
            IN  /\ r.id \in DOMAIN store'.items
                /\ store'.items[r.id].summary = r.summary
                /\ store'.items[r.id].embedding = EmbeddingOfRow(r.embedding)]_vars

\* a load read a category row with a malformed embedding and, after it, a
\* category row with a well-formed one: both categories are in the
\* repository, the first without embedding, the second with its vector
C17_Witness ==
  /\ last.op = "load_all" /\ last.ret = "True"
  /\ Len(pg.tables.categories) = 2
  /\ pg.tables.categories[1].embedding \in BadTexts
  /\ WellFormed(pg.tables.categories[2].embedding)
  /\ store.categories[pg.tables.categories[1].id].embedding = NoEmb
  /\ store.categories[pg.tables.categories[2].id].embedding = ListOf(<<1, 2>>)

\* C18: an item row has the columns id, summary, embedding and created_at
\* only, and after a load that read the tables every item of the repository
\* that has a row carries resource_id "" and memory_type "knowledge",
\* whatever it carried before the load.
C18_ItemLosesResourceAndType ==
  [][/\ \A i \in 1..Len(pg'.tables.items) :
          DOMAIN pg'.tables.items[i] = {"id", "summary", "embedding", "created_at"}
     /\ (last'.op = "load_all" /\ last'.query)
          => \A i \in 1..Len(pg'.tables.items) :
               LET id == pg'.tables.items[i].id
               IN  /\ id \in DOMAIN store'.items
                   /\ store'.items[id].resource_id = ""
                   /\ store'.items[id].memory_type = "knowledge"]_vars

\* an item created for resource u1 with memory_type "event" was persisted
\* and loaded back over itself: it now has neither
C18_Witness ==
  /\ last.op = "load_all" /\ last.query
  /\ "u2" \in DOMAIN store.items
  /\ HasId(pg.tables.items, "u2")
  /\ hist.persists = [x \in {"u2"} |-> 1]
  /\ "u1" \in DOMAIN store.resources
  /\ store.items["u2"].resource_id = "" /\ store.items["u2"].memory_type = "knowledge"

\* the relation a relations row is loaded as
RelationOf(r) == [item_id |-> r.item_id, category_id |-> r.category_id]

\* C19: a load that read the tables leaves the relation list it found,
\* followed by one relation per row of the relations table, in row order.
C19_LoadAppendsRelations ==
  [][(last'.op = "load_all" /\ last'.query) =>
       /\ Len(store'.relations) = Len(store.relations) + Len(pg'.tables.relations)
       /\ \A i \in 1..Len(store.relations) : store'.relations[i] = store.relations[i]
       /\ \A i \in 1..Len(pg'.tables.relations) :
            store'.relations[Len(store.relations) + i] =
              RelationOf(pg'.tables.relations[i])]_vars

\* link, persist_relation, load_all on one proxy: two copies of the link
C19_Witness ==
  /\ last.op = "load_all" /\ last.query
  /\ calls = 3
  /\ Len(pg.tables.relations) = 1
  /\ Len(store.relations) = 2
  /\ store.relations[1] = store.relations[2]

\* C20: close leaves the driver's pool reference set; once the pool is
\* closed it stays the driver's pool, no pool is created, no table changes,
\* and every later persist or load raises from the closed pool.
C20_ClosedPoolStaysSet ==
  [][/\ (last'.op = "close" /\ pg.pool # NoPool)
          => pg'.closed /\ pg'.pool = pg.pool
     /\ pg.closed
          => /\ pg'.closed /\ pg'.pool = pg.pool /\ pg'.created = pg.created
             /\ pg'.tables = pg.tables
             /\ last'.op \in PersistOps \cup {"load_all"}
                  => last'.ret = "raise" /\ ~last'.query /\ store' = store]_vars

\* a persist issued after close has raised, with a row written before close
C20_Witness ==
  /\ pg.closed /\ pg.pool # NoPool
  /\ last.op = "persist_category" /\ last.ret = "raise"
  /\ pg.tables.categories # <<>>

\* C12: a task that found the pool unset and resumes from create_pool
\* assigns the pool it got without testing self.pool again, so the driver's
\* pool is then the newest pool created and the count of pools grows with
\* every such task; and as long as no pool is set, a task that begins a call
\* goes on to create one, however many tasks already wait in create_pool.
C12_PoolCreationUnguarded ==
  [][\A t \in Tasks :
       /\ (tasks[t].pc = "create_pool" /\ tasks'[t].pc = "acquire")
            => /\ pg'.created = pg.created + 1
               /\ pg'.pool = pg'.created
               /\ pg.pool # NoPool => pg'.pool # pg.pool
       /\ (tasks[t].pc = "idle" /\ tasks'[t].pc # "idle" /\ pg.pool = NoPool)
            => tasks'[t].pc = "create_pool"]_vars

\* two calls were begun, both tasks saw the pool unset, each created a pool,
\* and the second pool has replaced the first
C12_Witness ==
  /\ calls = 2
  /\ \A t \in Tasks : tasks[t].op \in DriverOps /\ tasks[t].pc # "create_pool"
  /\ pg.created = 2
  /\ pg.pool = 2

\* the connections checked out of the driver's pools
RECURSIVE HeldBy(_)
HeldBy(ts) ==
  IF ts = {} THEN 0
  ELSE LET t == CHOOSE x \in ts : TRUE IN tasks[t].held + HeldBy(ts \ {t})

\* C13: a call holds one connection while it waits for a statement and none
\* before; a task that is in no call holds none, whether its last call
\* returned or raised; so with no call in flight no connection is out.
C13_ConnectionsReleased ==
  /\ \A t \in Tasks :
       /\ tasks[t].held <= 1
       /\ tasks[t].pc \in QueryPcs => tasks[t].held = 1
       /\ tasks[t].pc \notin QueryPcs => tasks[t].held = 0
  /\ (\A t \in Tasks : tasks[t].pc = "idle") => HeldBy(Tasks) = 0

\* one task's load returned True, the other task's call ended in a query
\* error, both are idle, and no connection is out
C13_Witness ==
  /\ reachable
  /\ \A t \in Tasks : tasks[t].pc = "idle"
  /\ \E t \in Tasks : tasks[t].op = "load_into_store" /\ tasks[t].ret = "True"
  /\ \E t \in Tasks : tasks[t].op \in DriverOps /\ tasks[t].ret = "raise"
  /\ HeldBy(Tasks) = 0

====
